---- MODULE Spec2Model ----
(***************************************************************************)
(* Smart Expense & Budget Tracker (src/app.js): the time-bucket utility,   *)
(* the expense and budget stores and the insights engine.                  *)
(*                                                                         *)
(* Strings are sequences of one-character strings, so that formatting,     *)
(* parsing, prefix tests and padding are computed and not assumed.         *)
(* A time value is a record [day, ms]: day is the number of days since     *)
(* 1970-01-01 (UTC) and ms the milliseconds within that day.  Amounts are  *)
(* integers (minor currency units).                                        *)
(***************************************************************************)
EXTENDS Integers, Sequences, FiniteSets, TLC

VARIABLES
    tz,        \* name of the host time zone the Date methods use
    today,     \* new Date().toISOString().split('T')[0]
    expenses,  \* ExpenseManager.expenses
    budgets,   \* BudgetManager.budgets
    localStorage,   \* the items of window.localStorage: a map from item key to data
    quotaExceeded,  \* whether localStorage.setItem throws (the quota is used up)
    issued,    \* number of identifiers crypto.randomUUID() has returned
    setResult, \* what StorageUtility.set returned in the last operation
    op,        \* the operation invoked last
    arg,       \* its argument
    ret        \* its result

vars == <<tz, today, expenses, budgets, localStorage, quotaExceeded, issued,
          setResult, op, arg, ret>>

----------------------------------------------------------------------------
(* Bounds of the model *)

\* number of consecutive days in each window of dates the model draws from
WindowDays == 21
\* largest number of records in a store drawn for the week filters
MaxWeekRecords == 1
\* a record drawn for the week filters is dated at most this many days
\* before or after the current date
WeekSpan == 8
\* largest number of records in a store drawn for the insights engine
MaxExpenses == 2

----------------------------------------------------------------------------
(* Strings *)

Digits == <<"0", "1", "2", "3", "4", "5", "6", "7", "8", "9">>

DigitChar(n) == Digits[n + 1]

IsDigit(c) == \E i \in 1..10 : Digits[i] = c

DigitVal(c) == (CHOOSE i \in 1..10 : Digits[i] = c) - 1

\* String(n) for an integer n >= 0
RECURSIVE NumStr(_)
NumStr(n) ==
    IF n < 10 THEN <<DigitChar(n)>>
    ELSE Append(NumStr(n \div 10), DigitChar(n % 10))

\* Number(s) for a string of decimal digits
RECURSIVE StrNum(_)
StrNum(s) ==
    IF Len(s) = 0 THEN 0
    ELSE 10 * StrNum(SubSeq(s, 1, Len(s) - 1)) + DigitVal(s[Len(s)])

AllDigits(s) == \A i \in 1..Len(s) : IsDigit(s[i])

\* the number NaN; no arithmetic of the model is applied to it where the
\* result matters
NaN == -999999999

isNaN(n) == n = NaN

\* Number(s) for a string without sign, point or exponent: "" is 0, a string
\* of digits its value, every other string NaN
Number(s) == IF AllDigits(s) THEN StrNum(s) ELSE NaN

\* String(n) of an integer or NaN
String(n) ==
    IF isNaN(n) THEN <<"N", "a", "N">>
    ELSE IF n < 0 THEN <<"-">> \o NumStr(0 - n)
    ELSE NumStr(n)

padStart(s, w, c) ==
    IF Len(s) >= w THEN s ELSE [i \in 1..(w - Len(s)) |-> c] \o s

startsWith(s, p) == Len(p) <= Len(s) /\ SubSeq(s, 1, Len(p)) = p

\* F(e), with e evaluated once: a const declaration of the source
With(e, F(_)) == CHOOSE v \in {F(x) : x \in {e}} : TRUE

----------------------------------------------------------------------------
(* Time values and the calendar (the Date object of the host) *)

msPerMinute == 60 * 1000
msPerHour == 60 * msPerMinute
msPerDay == 24 * msPerHour

NaNTime == [day |-> 0, ms |-> -1]

IsNaNTime(t) == t.ms < 0

\* a <= b and a < b on time values: false when either is NaN
TimeLeq(a, b) ==
    /\ ~IsNaNTime(a)
    /\ ~IsNaNTime(b)
    /\ (a.day < b.day \/ (a.day = b.day /\ a.ms <= b.ms))

TimeLess(a, b) ==
    /\ ~IsNaNTime(a)
    /\ ~IsNaNTime(b)
    /\ (a.day < b.day \/ (a.day = b.day /\ a.ms < b.ms))

TimePlus(t, d) ==
    [day |-> t.day + ((t.ms + d) \div msPerDay), ms |-> (t.ms + d) % msPerDay]

\* MakeDay(year, month, date): the day number of a civil date; date may lie
\* outside the month, as in setDate(0) or setDate(35)
MakeDay(y, m, d) ==
    LET yy  == IF m <= 2 THEN y - 1 ELSE y
        era == yy \div 400
        yoe == yy - era * 400
        mp  == IF m > 2 THEN m - 3 ELSE m + 9
        doy == ((153 * mp + 2) \div 5) + d - 1
        doe == yoe * 365 + (yoe \div 4) - (yoe \div 100) + doy
    IN  era * 146097 + doe - 719468

\* YearFromTime, MonthFromTime (1..12) and DateFromTime of a day number
CivilFromDay(n) ==
    LET z   == n + 719468
        era == z \div 146097
        doe == z - era * 146097
        yoe == (doe - (doe \div 1460) + (doe \div 36524) - (doe \div 146096)) \div 365
        doy == doe - (365 * yoe + (yoe \div 4) - (yoe \div 100))
        mp  == (5 * doy + 2) \div 153
        d   == doy - ((153 * mp + 2) \div 5) + 1
        m   == IF mp < 10 THEN mp + 3 ELSE mp - 9
        y   == yoe + era * 400 + (IF m <= 2 THEN 1 ELSE 0)
    IN  [y |-> y, m |-> m, d |-> d]

\* WeekDay: 0 = Sunday .. 6 = Saturday (1970-01-01 was a Thursday)
WeekDay(n) == (n + 4) % 7

DaysInMonth(y, m) == MakeDay(IF m = 12 THEN y + 1 ELSE y, IF m = 12 THEN 1 ELSE m + 1, 1) - MakeDay(y, m, 1)

\* new Date("YYYY-MM-DD"): a date-only string is taken as UTC midnight
DateParse(s) ==
    IF /\ Len(s) = 10
       /\ s[5] = "-"
       /\ s[8] = "-"
       /\ AllDigits(SubSeq(s, 1, 4))
       /\ AllDigits(SubSeq(s, 6, 7))
       /\ AllDigits(SubSeq(s, 9, 10))
    THEN LET y == StrNum(SubSeq(s, 1, 4))
             m == StrNum(SubSeq(s, 6, 7))
             d == StrNum(SubSeq(s, 9, 10))
         IN  IF m \in 1..12 /\ d >= 1 /\ d <= DaysInMonth(y, m)
             THEN [day |-> MakeDay(y, m, d), ms |-> 0]
             ELSE NaNTime
    ELSE NaNTime

\* the outcome of a call that throws: toISOString of an invalid Date
RangeError == <<"RangeError: Invalid time value">>

\* d.toISOString().split('T')[0]: the UTC calendar date of a time value;
\* toISOString throws when the time value is NaN
ToISODate(t) ==
    IF IsNaNTime(t) THEN RangeError
    ELSE LET c == CivilFromDay(t.day)
         IN  padStart(NumStr(c.y), 4, "0") \o <<"-">> \o
             padStart(NumStr(c.m), 2, "0") \o <<"-">> \o
             padStart(NumStr(c.d), 2, "0")

----------------------------------------------------------------------------
(* The host time zone: offsets[i] is the offset from UTC, in ms, in force   *)
(* before transitions[i] and offsets[i + 1] the one in force from it on.   *)

Zones ==
    [UTC |->
        [offsets |-> <<0>>, transitions |-> <<>>],
     Kolkata |->
        [offsets |-> <<330 * msPerMinute>>, transitions |-> <<>>],
     NewYork |->
        [offsets |-> <<-5 * msPerHour, -4 * msPerHour, -5 * msPerHour>>,
         transitions |-> <<[day |-> MakeDay(2025, 3, 9), ms |-> 7 * msPerHour],
                           [day |-> MakeDay(2025, 11, 2), ms |-> 6 * msPerHour]>>]]

TimeZones == {"UTC", "Kolkata", "NewYork"}

Min(a, b) == IF a <= b THEN a ELSE b

\* offset in force at the UTC time value t
Offset(z, t) ==
    LET zone == Zones[z]
        k == Cardinality({i \in DOMAIN zone.transitions : TimeLeq(zone.transitions[i], t)})
    IN  zone.offsets[k + 1]

\* LocalTime(t)
LocalTime(z, t) == TimePlus(t, Offset(z, t))

\* offset by which the local time value tl is read: a local time that occurs
\* twice or not at all at a transition is read with the offset before it
LocalOffset(z, tl) ==
    LET zone == Zones[z]
        k == Cardinality({i \in DOMAIN zone.transitions :
                TimeLeq(zone.transitions[i],
                        TimePlus(tl, 0 - Min(zone.offsets[i], zone.offsets[i + 1])))})
    IN  zone.offsets[k + 1]

\* UTC(tl)
UTC(z, tl) == TimePlus(tl, 0 - LocalOffset(z, tl))

\* d.getDay()
getDay(z, t) == IF IsNaNTime(t) THEN NaN ELSE WeekDay(LocalTime(z, t).day)

\* d.getDate()
getDate(z, t) ==
    IF IsNaNTime(t) THEN NaN ELSE CivilFromDay(LocalTime(z, t).day).d

\* d.setDate(dt): the local day of the month is replaced, the local time of
\* day is kept; an invalid Date stays invalid
setDate(z, t, dt) ==
    IF IsNaNTime(t) THEN NaNTime
    ELSE
    With(LocalTime(z, t), LAMBDA l :
    With(CivilFromDay(l.day), LAMBDA c :
        UTC(z, [day |-> MakeDay(c.y, c.m, dt), ms |-> l.ms])))

\* d.setHours(h, mi, s, milli): the local time of day is replaced
setHours(z, t, h, mi, s, milli) ==
    IF IsNaNTime(t) THEN NaNTime
    ELSE
    With(LocalTime(z, t), LAMBDA l :
        UTC(z, [day |-> l.day, ms |-> ((h * 60 + mi) * 60 + s) * 1000 + milli]))

----------------------------------------------------------------------------
(* Utility *)

getStartOfWeek(z, date) ==
    With(DateParse(date), LAMBDA d0 :
    With(getDay(z, d0), LAMBDA day :
    With(getDate(z, d0) - day + (IF day = 0 THEN -6 ELSE 1), LAMBDA diff :
    With(setDate(z, d0, diff), LAMBDA d1 :
    With(setHours(z, d1, 0, 0, 0, 0), LAMBDA d2 :
        ToISODate(d2))))))

getStartOfMonth(z, date) ==
    With(DateParse(date), LAMBDA d0 :
    With(setDate(z, d0, 1), LAMBDA d1 :
    With(ToISODate(d1), LAMBDA iso :
        IF iso = RangeError THEN RangeError ELSE SubSeq(iso, 1, 7))))

getPreviousWeek(z, dateKey) ==
    With(DateParse(dateKey), LAMBDA d0 :
    With(setDate(z, d0, getDate(z, d0) - 7), LAMBDA d1 :
        ToISODate(d1)))

\* dateKey.split(sep)
RECURSIVE split(_, _)
split(s, sep) ==
    IF \A i \in 1..Len(s) : s[i] # sep THEN <<s>>
    ELSE LET i == CHOOSE k \in 1..Len(s) :
                      s[k] = sep /\ \A j \in 1..(k - 1) : s[j] # sep
         IN  <<SubSeq(s, 1, i - 1)>> \o split(SubSeq(s, i + 1, Len(s)), sep)

\* a - b on numbers: NaN when either is NaN
Minus(a, b) == IF isNaN(a) \/ isNaN(b) THEN NaN ELSE a - b

\* getPreviousMonth keeping the year of dateKey in every case
getPreviousMonth_SameYear(dateKey) ==
    With(split(dateKey, "-"), LAMBDA parts :
    With(Number(parts[1]), LAMBDA year :
    With(IF Len(parts) >= 2 THEN Number(parts[2]) ELSE NaN, LAMBDA month :
    With(IF month = 1 THEN 12 ELSE Minus(month, 1), LAMBDA prevMonth :
        String(year) \o <<"-">> \o padStart(String(prevMonth), 2, "0")))))

\* month is undefined when dateKey has no '-'; undefined === 1 is false and
\* undefined - 1 is NaN, as for NaN, which stands for it here
getPreviousMonth(dateKey) ==
    With(split(dateKey, "-"), LAMBDA parts :
    With(Number(parts[1]), LAMBDA year :
    With(IF Len(parts) >= 2 THEN Number(parts[2]) ELSE NaN, LAMBDA month :
    With(IF month = 1 THEN 12 ELSE Minus(month, 1), LAMBDA prevMonth :
    With(IF month = 1 THEN Minus(year, 1) ELSE year, LAMBDA prevYear :
        String(prevYear) \o <<"-">> \o padStart(String(prevMonth), 2, "0"))))))

----------------------------------------------------------------------------
(* StorageUtility.  An item holds the data itself: JSON.parse gives back    *)
(* what JSON.stringify was given for the lists of records and the maps of  *)
(* the model, whose numbers are finite.                                    *)

NoItems == [k \in {} |-> <<>>]

\* StorageUtility.get(key) || default
StorageGet(items, key, default) ==
    IF key \in DOMAIN items THEN items[key] ELSE default

\* the items after StorageUtility.set(key, data): setItem throws and nothing
\* is written when the quota is exceeded
StorageSet(items, full, key, data) ==
    IF full THEN items
    ELSE [k \in DOMAIN items \cup {key} |-> IF k = key THEN data ELSE items[k]]

\* the value StorageUtility.set returns
StorageSetResult(full) == IF full THEN "failed" ELSE "ok"

----------------------------------------------------------------------------
(* ExpenseManager *)

\* number of leading decimal digits of s
DigitPrefix(s) ==
    CHOOSE n \in 0..Len(s) :
        /\ \A i \in 1..n : IsDigit(s[i])
        /\ n < Len(s) => ~IsDigit(s[n + 1])

\* parseFloat(s) in hundredths, for a string with at most two decimals: an
\* optional '-', digits, optionally '.' and digits; what follows is ignored;
\* NaN when there is no digit
parseFloat(s) ==
    LET neg  == Len(s) > 0 /\ s[1] = "-"
        body == IF neg THEN Tail(s) ELSE s
        n    == DigitPrefix(body)
        rest == SubSeq(body, n + 1, Len(body))
        f    == IF Len(rest) > 0 /\ rest[1] = "." THEN DigitPrefix(Tail(rest)) ELSE 0
        frac == SubSeq(rest, 2, 1 + Min(f, 2))
        abs  == 100 * StrNum(SubSeq(body, 1, n)) +
                (IF Len(frac) = 1 THEN 10 * StrNum(frac) ELSE StrNum(frac))
    IN  IF n = 0 /\ f = 0 THEN NaN
        ELSE IF neg THEN 0 - abs ELSE abs

\* s.trim()
RECURSIVE trim(_)
trim(s) ==
    IF Len(s) > 0 /\ s[1] = " " THEN trim(Tail(s))
    ELSE IF Len(s) > 0 /\ s[Len(s)] = " " THEN trim(SubSeq(s, 1, Len(s) - 1))
    ELSE s

\* the value null
null == [null |-> TRUE]

\* this.expenses.findIndex(e => e.id === id); 0 stands for -1
findIndex(exps, id) ==
    IF \E i \in 1..Len(exps) : exps[i].id = id
    THEN CHOOSE i \in 1..Len(exps) :
            exps[i].id = id /\ \A j \in 1..(i - 1) : exps[j].id # id
    ELSE 0

\* the record addExpense makes and returns
newExpense(id, amount, category, description, date) ==
    [id |-> id, amount |-> parseFloat(amount), category |-> category,
     description |-> trim(description), date |-> date]

\* this.expenses after addExpense
addExpense(exps, id, amount, category, description, date) ==
    Append(exps, newExpense(id, amount, category, description, date))

\* updateExpense taking the record out and adding the new one at the end
updateExpense_Append(exps, id, amount, category, description, date) ==
    IF findIndex(exps, id) # 0
    THEN Append(SelectSeq(exps, LAMBDA e : e.id # id),
                [id |-> id, amount |-> parseFloat(amount), category |-> category,
                 description |-> trim(description), date |-> date])
    ELSE exps

\* this.expenses after updateExpense
updateExpense(exps, id, amount, category, description, date) ==
    With(findIndex(exps, id), LAMBDA index :
        IF index # 0
        THEN [exps EXCEPT ![index] = newExpense(id, amount, category, description, date)]
        ELSE exps)

\* what updateExpense returns
updateExpenseResult(exps, id, amount, category, description, date) ==
    With(findIndex(exps, id), LAMBDA index :
        IF index # 0
        THEN updateExpense(exps, id, amount, category, description, date)[index]
        ELSE null)

\* this.expenses after deleteExpense
deleteExpense(exps, id) == SelectSeq(exps, LAMBDA e : e.id # id)

\* what deleteExpense returns
deleteExpenseResult(exps, id) == Len(deleteExpense(exps, id)) < Len(exps)

(* ExpenseManager: the read filters *)

\* the comparator of line 151, new Date(b.date) - new Date(a.date), is not
\* positive: a does not have to come after b; a NaN difference counts as 0
NotAfter(a, b) ==
    With(DateParse(a.date), LAMBDA ta :
    With(DateParse(b.date), LAMBDA tb :
        IsNaNTime(ta) \/ IsNaNTime(tb) \/ TimeLeq(tb, ta)))

\* array.sort(comparator): a stable sort, newest date first
RECURSIVE sort(_)
sort(a) ==
    IF Len(a) <= 1 THEN a
    ELSE With(sort(SubSeq(a, 1, Len(a) - 1)), LAMBDA front :
         With(a[Len(a)], LAMBDA e :
         With(Cardinality({i \in 1..Len(front) :
                              \A j \in 1..i : NotAfter(front[j], e)}), LAMBDA n :
             SubSeq(front, 1, n) \o <<e>> \o SubSeq(front, n + 1, Len(front)))))

getDailyExpenses(exps, date) == sort(SelectSeq(exps, LAMBDA e : e.date = date))

\* this.expenses after getDailyExpenses, were the sort applied to it
expensesAfterDaily_Sorted(exps, date) == sort(exps)

\* this.expenses after getDailyExpenses: filter makes a new array, and it
\* is the new array that sort reorders
expensesAfterDaily(exps, date) == exps

getExpensesByMonth(exps, monthKey) ==
    SelectSeq(exps, LAMBDA e : startsWith(e.date, monthKey))

\* getExpensesByWeek with the end of the week set seven days after its start
getExpensesByWeek_SevenDays(exps, z, dateKey) ==
    With(DateParse(dateKey), LAMBDA startOfWeek :
    With(setDate(z, startOfWeek, getDate(z, startOfWeek) + 7), LAMBDA end0 :
    With(setHours(z, end0, 23, 59, 59, 999), LAMBDA endOfWeek :
        SelectSeq(exps, LAMBDA e :
            With(DateParse(e.date), LAMBDA expenseDate :
                /\ TimeLeq(startOfWeek, expenseDate)
                /\ TimeLeq(expenseDate, endOfWeek))))))

getExpensesByWeek(exps, z, dateKey) ==
    With(DateParse(dateKey), LAMBDA startOfWeek :
    With(setDate(z, startOfWeek, getDate(z, startOfWeek) + 6), LAMBDA end0 :
    With(setHours(z, end0, 23, 59, 59, 999), LAMBDA endOfWeek :
        SelectSeq(exps, LAMBDA e :
            With(DateParse(e.date), LAMBDA expenseDate :
                /\ TimeLeq(startOfWeek, expenseDate)
                /\ TimeLeq(expenseDate, endOfWeek))))))

----------------------------------------------------------------------------
(* BudgetManager: budgets maps a period type to a map from period key to   *)
(* amount; both maps are functions whose domain holds the keys present.    *)

NoBudgets == [t \in {} |-> [k \in {} |-> 0]]

getBudget(b, type, key) ==
    IF type \in DOMAIN b /\ key \in DOMAIN b[type] /\ b[type][key] # 0
    THEN b[type][key]
    ELSE 0

getCurrentMonthlyBudget(b, z, now) ==
    getBudget(b, "monthly", getStartOfMonth(z, now))

\* setBudget dropping every other budget
setBudget_Alone(b, type, key, amount) ==
    IF type # "monthly" /\ type # "weekly" THEN b
    ELSE [t \in {type} |-> [k \in {key} |-> amount]]

\* this.budgets after setBudget; amount is a number, of which parseFloat
\* gives the number itself
setBudget(b, type, key, amount) ==
    IF type # "monthly" /\ type # "weekly" THEN b
    ELSE
    LET old == IF type \in DOMAIN b THEN b[type] ELSE [k \in {} |-> 0]
        new == [k \in DOMAIN old \cup {key} |-> IF k = key THEN amount ELSE old[k]]
    IN  [t \in DOMAIN b \cup {type} |-> IF t = type THEN new ELSE b[t]]

----------------------------------------------------------------------------
\* what setBudget returns
setBudgetResult(type) == ~(type # "monthly" /\ type # "weekly")

----------------------------------------------------------------------------
(* InsightsEngine *)

\* expenses.reduce((sum, e) => sum + e.amount, 0)
RECURSIVE TotalOf(_)
TotalOf(exps) ==
    IF Len(exps) = 0 THEN 0
    ELSE TotalOf(SubSeq(exps, 1, Len(exps) - 1)) + exps[Len(exps)].amount

\* the second reduce: an object keyed by category; its entries are kept in
\* the order in which the keys were first set (the order of Object.keys)
RECURSIVE CategoryTotalsOf(_)
CategoryTotalsOf(exps) ==
    IF Len(exps) = 0 THEN <<>>
    ELSE With(CategoryTotalsOf(SubSeq(exps, 1, Len(exps) - 1)), LAMBDA totals :
         With(exps[Len(exps)], LAMBDA e :
             IF \E i \in 1..Len(totals) : totals[i].category = e.category
             THEN [i \in 1..Len(totals) |->
                      IF totals[i].category = e.category
                      THEN [category |-> e.category,
                            amount   |-> totals[i].amount + e.amount]
                      ELSE totals[i]]
             ELSE Append(totals, [category |-> e.category, amount |-> e.amount])))

\* calculateTotals with the category entry overwritten instead of added to
RECURSIVE OverwrittenTotalsOf(_)
OverwrittenTotalsOf(exps) ==
    IF Len(exps) = 0 THEN <<>>
    ELSE With(OverwrittenTotalsOf(SubSeq(exps, 1, Len(exps) - 1)), LAMBDA totals :
         With(exps[Len(exps)], LAMBDA e :
             IF \E i \in 1..Len(totals) : totals[i].category = e.category
             THEN [i \in 1..Len(totals) |->
                      IF totals[i].category = e.category
                      THEN [category |-> e.category, amount |-> e.amount]
                      ELSE totals[i]]
             ELSE Append(totals, [category |-> e.category, amount |-> e.amount])))

calculateTotals_Overwrite(exps) ==
    [total |-> TotalOf(exps), categoryTotals |-> OverwrittenTotalsOf(exps)]

CATEGORIES ==
    <<"Food", "Transport", "Housing", "Entertainment", "Bills", "Shopping", "Other">>

\* calculateTotals with an entry of 0 for every category without a record
calculateTotals_ZeroFilled(exps) ==
    With(CategoryTotalsOf(exps), LAMBDA totals :
        [total |-> TotalOf(exps),
         categoryTotals |->
            totals \o
            SelectSeq([i \in 1..Len(CATEGORIES) |-> [category |-> CATEGORIES[i], amount |-> 0]],
                      LAMBDA x : \A j \in 1..Len(totals) : totals[j].category # x.category)])

calculateTotals(exps) ==
    [total |-> TotalOf(exps), categoryTotals |-> CategoryTotalsOf(exps)]

getWeeklySummary(exps, z, now) ==
    With(getStartOfWeek(z, now), LAMBDA currentWeekKey :
    With(getPreviousWeek(z, currentWeekKey), LAMBDA lastWeekKey :
        [currentWeekKey |-> currentWeekKey,
         lastWeekKey    |-> lastWeekKey,
         current |-> calculateTotals(getExpensesByWeek(exps, z, currentWeekKey)),
         last    |-> calculateTotals(getExpensesByWeek(exps, z, lastWeekKey))]))

getMonthlySummary(exps, b, z, now) ==
    With(getStartOfMonth(z, now), LAMBDA currentMonthKey :
    With(getPreviousMonth(currentMonthKey), LAMBDA prevMonthKey :
        [currentMonthKey |-> currentMonthKey,
         prevMonthKey    |-> prevMonthKey,
         current |-> calculateTotals(getExpensesByMonth(exps, currentMonthKey)),
         prev    |-> calculateTotals(getExpensesByMonth(exps, prevMonthKey)),
         budget  |-> getCurrentMonthlyBudget(b, z, now)]))

\* (num / den * 100).toFixed(0) for num >= 0 and den > 0: the nearest
\* integer, the larger one when two are equally near
PercentFixed0(num, den) == (200 * num + den) \div (2 * den)

\* an insight message: the template used and the values put into it
Msg(kind, percent, amount, category) ==
    [kind |-> kind, percent |-> percent, amount |-> amount, category |-> category]

Abs(x) == IF x < 0 THEN 0 - x ELSE x

\* the reduce with >= in place of >: the earlier of two equal categories wins
RECURSIVE TopCategory_FirstWins(_)
TopCategory_FirstWins(totals) ==
    IF Len(totals) = 1 THEN totals[1]
    ELSE With(TopCategory_FirstWins(SubSeq(totals, 1, Len(totals) - 1)), LAMBDA a :
         With(totals[Len(totals)], LAMBDA b :
             IF a.amount >= b.amount THEN a ELSE b))

\* Object.keys(categoryTotals).reduce((a, b) => totals[a] > totals[b] ? a : b)
RECURSIVE TopCategory(_)
TopCategory(totals) ==
    IF Len(totals) = 1 THEN totals[1]
    ELSE With(TopCategory(SubSeq(totals, 1, Len(totals) - 1)), LAMBDA a :
         With(totals[Len(totals)], LAMBDA b :
             IF a.amount > b.amount THEN a ELSE b))

\* rule 1 with the difference taken as a share of the current week
WeeklyInsight_PercentOfCurrent(weekly) ==
    With(weekly.current.total, LAMBDA c :
    With(weekly.last.total, LAMBDA l :
    With(c - l, LAMBDA diff :
        IF c > 0 /\ l > 0
        THEN IF diff > 0
             THEN <<Msg("Warning", PercentFixed0(Abs(diff), c), 0, "")>>
             ELSE IF diff < 0
                  THEN <<Msg("GreatJob", PercentFixed0(Abs(diff), c), 0, "")>>
                  ELSE <<>>
        ELSE IF c > 0 /\ l = 0
             THEN <<Msg("StartComparing", 0, 0, "")>>
             ELSE <<>>)))

\* 1. Weekly Comparison Insight
WeeklyInsight(weekly) ==
    With(weekly.current.total, LAMBDA c :
    With(weekly.last.total, LAMBDA l :
    With(c - l, LAMBDA diff :
        IF c > 0 /\ l > 0
        THEN IF diff > 0
             THEN <<Msg("Warning", PercentFixed0(Abs(diff), l), 0, "")>>
             ELSE IF diff < 0
                  THEN <<Msg("GreatJob", PercentFixed0(Abs(diff), l), 0, "")>>
                  ELSE <<>>
        ELSE IF c > 0 /\ l = 0
             THEN <<Msg("StartComparing", 0, 0, "")>>
             ELSE <<>>)))

\* rule 2 with the 80% threshold belonging to the "Excellent" branch
BudgetInsight_Inclusive80(monthly) ==
    IF monthly.budget > 0
    THEN With(monthly.budget - monthly.current.total, LAMBDA remaining :
         With(100 * monthly.current.total <= 80 * monthly.budget, LAMBDA under80 :
         With(PercentFixed0(monthly.current.total, monthly.budget), LAMBDA used :
             IF remaining >= 0 /\ under80
             THEN <<Msg("Excellent", used, remaining, "")>>
             ELSE IF remaining < 0
                  THEN <<Msg("CriticalWarning", 0, Abs(remaining), "")>>
                  ELSE IF ~under80
                       THEN <<Msg("Caution", used, 0, "")>>
                       ELSE <<>>)))
    ELSE <<Msg("Tip", 0, 0, "")>>

\* 2. Budget Insight
BudgetInsight(monthly) ==
    IF monthly.budget > 0
    THEN With(monthly.budget - monthly.current.total, LAMBDA remaining :
         With(100 * monthly.current.total < 80 * monthly.budget, LAMBDA under80 :
         With(PercentFixed0(monthly.current.total, monthly.budget), LAMBDA used :
             IF remaining >= 0 /\ under80
             THEN <<Msg("Excellent", used, remaining, "")>>
             ELSE IF remaining < 0
                  THEN <<Msg("CriticalWarning", 0, Abs(remaining), "")>>
                  ELSE IF ~under80
                       THEN <<Msg("Caution", used, 0, "")>>
                       ELSE <<>>)))
    ELSE <<Msg("Tip", 0, 0, "")>>

\* rule 3 with the suggestion given for Shopping alone
TopCategoryInsight_ShoppingOnly(monthly) ==
    With(monthly.current.categoryTotals, LAMBDA totals :
        IF Len(totals) > 0
        THEN With(TopCategory(totals), LAMBDA top :
                 <<Msg("Observation", 0, top.amount, top.category)>> \o
                 (IF top.category = "Shopping"
                  THEN <<Msg("Suggestion", 0, 0, top.category)>>
                  ELSE <<>>))
        ELSE <<>>)

\* 3. Top Category Insight (Current Month)
TopCategoryInsight(monthly) ==
    With(monthly.current.categoryTotals, LAMBDA totals :
        IF Len(totals) > 0
        THEN With(TopCategory(totals), LAMBDA top :
                 <<Msg("Observation", 0, top.amount, top.category)>> \o
                 (IF top.category = "Entertainment" \/ top.category = "Shopping"
                  THEN <<Msg("Suggestion", 0, 0, top.category)>>
                  ELSE <<>>))
        ELSE <<>>)

\* the rules with the budget rule evaluated before the weekly rule
InsightRules_BudgetFirst(weekly, monthly) ==
    BudgetInsight(monthly) \o WeeklyInsight(weekly) \o TopCategoryInsight(monthly)

\* the three rules in the order in which generateInsights evaluates them
InsightRules(weekly, monthly) ==
    WeeklyInsight(weekly) \o BudgetInsight(monthly) \o TopCategoryInsight(monthly)

generateInsights(exps, b, z, now) ==
    With(getWeeklySummary(exps, z, now), LAMBDA weekly :
    With(getMonthlySummary(exps, b, z, now), LAMBDA monthly :
        InsightRules(weekly, monthly)))

----------------------------------------------------------------------------
(* Inputs *)

DateOfDay(n) == ToISODate([day |-> n, ms |-> 0])

DateWindow(first) == {DateOfDay(first + i) : i \in 0..(WindowDays - 1)}

\* the dates drawn: a window across a year boundary and a window across
\* the end of daylight saving time in America/New_York (2025-11-02)
DateKeys ==
    DateWindow(MakeDay(2024, 12, 23)) \cup DateWindow(MakeDay(2025, 10, 20))

\* an identifier generator that returns the identifier of a demo record
UUID_Demo(n) == <<"d", "1">>

\* crypto.randomUUID(): the n-th identifier drawn
UUID(n) == <<"u">> \o NumStr(n)

Expense(id, amount, category, description, date) ==
    [id |-> id, amount |-> amount, category |-> category,
     description |-> description, date |-> date]

\* stores whose i-th record was made from the i-th of the inputs
StoresOf(inputs, maxLen) ==
    UNION {{[i \in 1..n |-> Expense(UUID(i), f[i][1], f[i][2], <<"x">>, f[i][3])] :
               f \in [1..n -> inputs]} : n \in 0..maxLen}

WeekStores(now) ==
    StoresOf({<<100, "Food", DateOfDay(DateParse(now).day + k)>> :
                 k \in (0 - WeekSpan)..WeekSpan}, MaxWeekRecords)

InsightCategories == {"Food", "Entertainment", "Shopping"}

InsightAmounts == {500, 1000}

BudgetAmounts == {1250, 15000}

\* the current dates drawn for the insights engine: a Wednesday in the middle
\* of a month and the first day of a month; in every zone drawn the day
\* itself lies in the current week and the day a week earlier in the last
InsightDays == {DateOfDay(MakeDay(2025, 1, 15)), DateOfDay(MakeDay(2025, 2, 1))}

LastWeekDay(now) == DateOfDay(DateParse(now).day - 7)

\* scenario A of the specification: Food 150.50 and Shopping 650.99
ScenarioA(now) ==
    <<Expense(UUID(1), 15050, "Food", <<"x">>, now),
      Expense(UUID(2), 65099, "Shopping", <<"x">>, now)>>

\* scenario B of the specification: 5000 spent in the current month
ScenarioB(now) == <<Expense(UUID(1), 5000, "Food", <<"x">>, now)>>

\* scenario C of the specification: 16000 spent in the current month
ScenarioC(now) == <<Expense(UUID(1), 16000, "Food", <<"x">>, now)>>

InsightStores(now) ==
    StoresOf(InsightAmounts \X InsightCategories \X {now, LastWeekDay(now)},
             MaxExpenses)
    \cup {ScenarioA(now), ScenarioB(now), ScenarioC(now)}

----------------------------------------------------------------------------
(* Operations.  The read operations leave the stores as they are and put   *)
(* their result into ret.                                                  *)

state == <<tz, today, expenses, budgets, localStorage, quotaExceeded, issued, setResult>>

GetStartOfWeek ==
    /\ op' = "getStartOfWeek"
    /\ arg' = today
    /\ ret' = getStartOfWeek(tz, today)
    /\ UNCHANGED state

GetPreviousWeek ==
    /\ op = "getStartOfWeek"
    /\ op' = "getPreviousWeek"
    /\ arg' = ret
    /\ ret' = getPreviousWeek(tz, ret)
    /\ UNCHANGED state

GetExpensesByWeek ==
    \E w \in {today, getStartOfWeek(tz, today)} :
        /\ op' = "getExpensesByWeek"
        /\ arg' = w
        /\ ret' = getExpensesByWeek(expenses, tz, w)
        /\ UNCHANGED state

GetWeeklySummary ==
    /\ op' = "getWeeklySummary"
    /\ arg' = today
    /\ ret' = getWeeklySummary(expenses, tz, today)
    /\ UNCHANGED state

GetMonthlySummary ==
    /\ op' = "getMonthlySummary"
    /\ arg' = today
    /\ ret' = getMonthlySummary(expenses, budgets, tz, today)
    /\ UNCHANGED state

CalculateTotals ==
    /\ op' = "calculateTotals"
    /\ arg' = expenses
    /\ ret' = calculateTotals(expenses)
    /\ UNCHANGED state

GenerateInsights ==
    /\ op' = "generateInsights"
    /\ arg' = today
    /\ ret' = generateInsights(expenses, budgets, tz, today)
    /\ UNCHANGED state

----------------------------------------------------------------------------
(* The application: the page is loaded, the user submits the forms and     *)
(* deletes records, and the managers are called directly.                  *)

\* number of identifiers crypto.randomUUID() returns in a behaviour
MaxIds == 1

Today == DateOfDay(MakeDay(2025, 1, 15))

\* the host time zones of the application
AppZones == {"UTC", "NewYork"}

\* what is typed into the expense form: amount, category, description and
\* date; one filling that is valid and fillings with one field that is not
FormInputs ==
    {<<<<"5", "0", "0">>, "Shopping", <<"x">>, Today>>,
     <<<<"0">>, "Shopping", <<"x">>, Today>>,
     <<<<"-", "5">>, "Shopping", <<"x">>, Today>>,
     <<<<"a", "b", "c">>, "Shopping", <<"x">>, Today>>,
     <<<<"5", "0", "0">>, "", <<"x">>, Today>>,
     <<<<"5", "0", "0">>, "Shopping", <<" ">>, Today>>,
     <<<<"5", "0", "0">>, "Shopping", <<"x">>, <<>>>>}

\* amounts passed to addExpense and updateExpense
DirectAmounts == {<<"5", "0", "0">>, <<"-", "5">>}

\* amounts typed into the budget form
FormBudgets == {<<"2", "0", "0", "0", "0">>, <<"0">>, <<"a", "b", "c">>}

\* amount, type and key passed to setBudget
DirectBudget == 2500000

BudgetTypes == {"monthly", "weekly", "yearly"}

BudgetKeys(z, now) == {getStartOfMonth(z, now)}

DemoId(n) == <<"d">> \o NumStr(n)

\* an identifier no record has
AbsentId == <<"z">>

demoExpenses(now) ==
    <<Expense(DemoId(1), 15050, "Food", <<"L">>, now),
      Expense(DemoId(2), 4000, "Transport", <<"B">>, now),
      Expense(DemoId(3), 65099, "Shopping", <<"N">>, now),
      Expense(DemoId(4), 50000, "Entertainment", <<"M">>, now)>>

demoBudgets(z, now) ==
    [monthly |-> [k \in {getStartOfMonth(z, now)} |-> 1500000]]

\* whether window.onload finds no expense stored
noDataFound(items) ==
    "expenses" \notin DOMAIN items \/ Len(items["expenses"]) = 0

\* the items after the first statement of window.onload
onloadItems(items, full, z, now) ==
    IF noDataFound(items)
    THEN StorageSet(StorageSet(items, full, "expenses", demoExpenses(now)),
                    full, "budgets", demoBudgets(z, now))
    ELSE items

\* window.onload: demo data is written when no expense is stored, then the
\* App and its managers are constructed from the stored items
Onload ==
    /\ localStorage' = onloadItems(localStorage, quotaExceeded, tz, today)
    /\ expenses' = StorageGet(localStorage', "expenses", <<>>)
    /\ budgets' = StorageGet(localStorage', "budgets", NoBudgets)
    /\ setResult' = IF noDataFound(localStorage)
                    THEN StorageSetResult(quotaExceeded) ELSE "none"
    /\ op' = "onload"
    /\ arg' = <<>>
    /\ ret' = <<>>
    /\ UNCHANGED <<tz, today, quotaExceeded, issued>>

AddExpense ==
    /\ issued < MaxIds
    /\ \E amount \in DirectAmounts :
        /\ expenses' = addExpense(expenses, UUID(issued + 1), amount, "Shopping", <<"x">>, today)
        /\ localStorage' = StorageSet(localStorage, quotaExceeded, "expenses", expenses')
        /\ setResult' = StorageSetResult(quotaExceeded)
        /\ issued' = issued + 1
        /\ op' = "addExpense"
        /\ arg' = <<amount, "Shopping", <<"x">>, today>>
        /\ ret' = newExpense(UUID(issued + 1), amount, "Shopping", <<"x">>, today)
        /\ UNCHANGED <<tz, today, budgets, quotaExceeded>>

UpdateExpense ==
    \E id \in {DemoId(1), UUID(1), AbsentId}, amount \in DirectAmounts :
        /\ expenses' = updateExpense(expenses, id, amount, "Shopping", <<"x">>, today)
        /\ localStorage' =
              IF findIndex(expenses, id) # 0
              THEN StorageSet(localStorage, quotaExceeded, "expenses", expenses')
              ELSE localStorage
        /\ setResult' = IF findIndex(expenses, id) # 0
                        THEN StorageSetResult(quotaExceeded) ELSE "none"
        /\ op' = "updateExpense"
        /\ arg' = <<id, amount, "Shopping", <<"x">>, today>>
        /\ ret' = updateExpenseResult(expenses, id, amount, "Shopping", <<"x">>, today)
        /\ UNCHANGED <<tz, today, budgets, quotaExceeded, issued>>

DeleteExpense ==
    \E id \in {expenses[i].id : i \in 1..Len(expenses)} \cup {AbsentId} :
        /\ expenses' = deleteExpense(expenses, id)
        /\ localStorage' = StorageSet(localStorage, quotaExceeded, "expenses", expenses')
        /\ setResult' = StorageSetResult(quotaExceeded)
        /\ op' = "deleteExpense"
        /\ arg' = id
        /\ ret' = deleteExpenseResult(expenses, id)
        /\ UNCHANGED <<tz, today, budgets, quotaExceeded, issued>>

\* the condition under which form.onsubmit shows the validation error
expenseFormInvalid(amount, category, description, date) ==
    \/ isNaN(parseFloat(amount))
    \/ parseFloat(amount) <= 0
    \/ category = ""
    \/ trim(description) = <<>>
    \/ date = <<>>

\* form.onsubmit of the expense form: id is form.dataset.id, the record
\* being edited (the first demo record or the first record added, when
\* present), or "" when a new record is entered
SubmitExpenseForm ==
    \E id \in ({DemoId(1), UUID(1)} \cap {expenses[i].id : i \in 1..Len(expenses)})
                   \cup {<<>>},
       in \in FormInputs :
      LET amount == in[1]
          category == in[2]
          description == in[3]
          date == in[4]
      IN
        /\ id = <<>> => issued < MaxIds
        /\ op' = "form.onsubmit"
        /\ arg' = <<id, amount, category, description, date>>
        /\ UNCHANGED <<tz, today, budgets, quotaExceeded>>
        /\ IF expenseFormInvalid(amount, category, description, date)
           THEN /\ ret' = "Validation Error"
                /\ setResult' = "none"
                /\ UNCHANGED <<expenses, localStorage, issued>>
           ELSE /\ ret' = "renderDailyView"
                /\ setResult' = StorageSetResult(quotaExceeded)
                /\ IF id # <<>>
                   THEN /\ expenses' = updateExpense(expenses, id, amount, category, description, date)
                        /\ issued' = issued
                   ELSE /\ expenses' = addExpense(expenses, UUID(issued + 1), amount, category,
                                                  description, date)
                        /\ issued' = issued + 1
                /\ localStorage' = StorageSet(localStorage, quotaExceeded, "expenses", expenses')

SetBudget ==
    \E type \in BudgetTypes, key \in BudgetKeys(tz, today) :
        /\ budgets' = setBudget(budgets, type, key, DirectBudget)
        /\ localStorage' =
              IF setBudgetResult(type)
              THEN StorageSet(localStorage, quotaExceeded, "budgets", budgets')
              ELSE localStorage
        /\ setResult' = IF setBudgetResult(type)
                        THEN StorageSetResult(quotaExceeded) ELSE "none"
        /\ op' = "setBudget"
        /\ arg' = <<type, key, DirectBudget>>
        /\ ret' = setBudgetResult(type)
        /\ UNCHANGED <<tz, today, expenses, quotaExceeded, issued>>

\* form.onsubmit of the budget form, rendered for the current month
SubmitBudgetForm ==
    \E amount \in FormBudgets :
        /\ op' = "budgetForm.onsubmit"
        /\ arg' = amount
        /\ UNCHANGED <<tz, today, expenses, quotaExceeded, issued>>
        /\ IF isNaN(parseFloat(amount)) \/ parseFloat(amount) <= 0
           THEN /\ ret' = "Validation Error"
                /\ setResult' = "none"
                /\ UNCHANGED <<budgets, localStorage>>
           ELSE /\ ret' = "renderBudgetView"
                /\ budgets' = setBudget(budgets, "monthly", getStartOfMonth(tz, today),
                                        parseFloat(amount))
                /\ localStorage' = StorageSet(localStorage, quotaExceeded, "budgets", budgets')
                /\ setResult' = StorageSetResult(quotaExceeded)

GetBudget ==
    \E type \in BudgetTypes, key \in BudgetKeys(tz, today) :
        /\ op' = "getBudget"
        /\ arg' = <<type, key>>
        /\ ret' = getBudget(budgets, type, key)
        /\ UNCHANGED state

\* the page after its first load, with nothing stored before
Init ==
    /\ tz \in AppZones
    /\ today = Today
    /\ quotaExceeded \in BOOLEAN
    /\ localStorage = onloadItems(NoItems, quotaExceeded, tz, today)
    /\ expenses = StorageGet(localStorage, "expenses", <<>>)
    /\ budgets = StorageGet(localStorage, "budgets", NoBudgets)
    /\ issued = 0
    /\ setResult = StorageSetResult(quotaExceeded)
    /\ op = "onload"
    /\ arg = <<>>
    /\ ret = <<>>

Next ==
    \/ Onload
    \/ AddExpense
    \/ UpdateExpense
    \/ DeleteExpense
    \/ SubmitExpenseForm
    \/ SetBudget
    \/ SubmitBudgetForm
    \/ GetBudget

Spec == Init /\ [][Next]_vars

(* The read operations, applied to drawn stores and budgets *)

GetDailyExpenses ==
    \E date \in {today, LastWeekDay(today)} :
        /\ op' = "getDailyExpenses"
        /\ arg' = date
        /\ ret' = getDailyExpenses(expenses, date)
        /\ expenses' = expensesAfterDaily(expenses, date)
        /\ localStorage' = localStorage
        /\ UNCHANGED <<tz, today, budgets, quotaExceeded, issued, setResult>>

GetExpensesByMonth ==
    \E monthKey \in {getStartOfMonth(tz, today),
                      getPreviousMonth(getStartOfMonth(tz, today))} :
        /\ op' = "getExpensesByMonth"
        /\ arg' = monthKey
        /\ ret' = getExpensesByMonth(expenses, monthKey)
        /\ UNCHANGED state

\* stores of records dated today or a week before, the older ones also last
ReadStores(now) ==
    StoresOf({500} \X {"Food", "Shopping"} \X {now, LastWeekDay(now)}, MaxExpenses)

InitReads ==
    /\ tz \in TimeZones
    /\ today \in InsightDays
    /\ expenses \in ReadStores(today)
    /\ budgets \in {NoBudgets} \cup
            {setBudget(NoBudgets, "monthly", getStartOfMonth(tz, today), a) :
                a \in BudgetAmounts}
    /\ localStorage = [expenses |-> expenses, budgets |-> budgets]
    /\ quotaExceeded = FALSE
    /\ issued = Len(expenses)
    /\ setResult = "none"
    /\ op = "init"
    /\ arg = <<>>
    /\ ret = <<>>

NextReads ==
    \/ CalculateTotals
    \/ GetWeeklySummary
    \/ GetMonthlySummary
    \/ GenerateInsights
    \/ GetDailyExpenses
    \/ GetExpensesByMonth
    \/ GetExpensesByWeek
    \/ GetBudget

SpecReads == InitReads /\ [][NextReads]_vars

(* The week functions, applied to drawn dates and stores *)

InitWeek ==
    /\ tz \in TimeZones
    /\ today \in DateKeys
    /\ expenses \in WeekStores(today)
    /\ budgets = NoBudgets
    /\ localStorage = [expenses |-> expenses, budgets |-> budgets]
    /\ quotaExceeded = FALSE
    /\ issued = Len(expenses)
    /\ setResult = "none"
    /\ op = "init"
    /\ arg = <<>>
    /\ ret = <<>>

NextWeek ==
    \/ GetStartOfWeek
    \/ GetPreviousWeek
    \/ GetExpensesByWeek
    \/ GetWeeklySummary

SpecWeek == InitWeek /\ [][NextWeek]_vars

(* The insights engine, applied to drawn stores and budgets *)

InitInsights ==
    /\ tz \in TimeZones
    /\ today \in InsightDays
    /\ expenses \in InsightStores(today)
    /\ budgets \in {NoBudgets} \cup
            {setBudget(NoBudgets, "monthly", getStartOfMonth(tz, today), a) :
                a \in BudgetAmounts}
    /\ localStorage = [expenses |-> expenses, budgets |-> budgets]
    /\ quotaExceeded = FALSE
    /\ issued = Len(expenses)
    /\ setResult = "none"
    /\ op = "init"
    /\ arg = <<>>
    /\ ret = <<>>

NextInsights ==
    \/ CalculateTotals
    \/ GenerateInsights

SpecInsights == InitInsights /\ [][NextInsights]_vars

(* The bucket functions, applied to drawn dates and keys, well formed or not *)

\* the first and the last day of every month of 2025
MonthEdgeDates ==
    {DateOfDay(MakeDay(2025, m, 1)) : m \in 1..12} \cup
    {DateOfDay(MakeDay(2025, m, DaysInMonth(2025, m))) : m \in 1..12}

BucketDates == DateKeys \cup MonthEdgeDates

MonthKeys == {SubSeq(d, 1, 7) : d \in BucketDates}

\* strings that are neither a date YYYY-MM-DD nor a month key YYYY-MM
Malformed ==
    {<<>>,
     <<"a", "b", "c">>,
     <<"2", "0", "2", "5">>,
     <<"2", "0", "2", "5", "-", "1", "3">>,
     <<"2", "0", "2", "5", "-", "1", "3", "-", "0", "1">>}

\* stores drawn for the month filter: at most one record, dated at the end
\* or the start of a month, or with a date that is none
BucketStores ==
    StoresOf({<<100, "Food", d>> :
                 d \in {DateOfDay(MakeDay(2024, 12, 31)), DateOfDay(MakeDay(2025, 1, 1)),
                        DateOfDay(MakeDay(2025, 1, 31)), <<"a", "b", "c">>}}, 1)

StartOfWeekOf ==
    \E d \in BucketDates \cup Malformed :
        /\ op' = "getStartOfWeek"
        /\ arg' = d
        /\ ret' = getStartOfWeek(tz, d)
        /\ UNCHANGED state

StartOfMonthOf ==
    \E d \in BucketDates \cup Malformed :
        /\ op' = "getStartOfMonth"
        /\ arg' = d
        /\ ret' = getStartOfMonth(tz, d)
        /\ UNCHANGED state

PreviousWeekOf ==
    \E d \in BucketDates \cup Malformed :
        /\ op' = "getPreviousWeek"
        /\ arg' = d
        /\ ret' = getPreviousWeek(tz, d)
        /\ UNCHANGED state

PreviousMonthOf ==
    \E k \in MonthKeys \cup Malformed :
        /\ op' = "getPreviousMonth"
        /\ arg' = k
        /\ ret' = getPreviousMonth(k)
        /\ UNCHANGED state

ExpensesByWeekOf ==
    \E d \in MonthEdgeDates \cup Malformed :
        /\ op' = "getExpensesByWeek"
        /\ arg' = d
        /\ ret' = getExpensesByWeek(expenses, tz, d)
        /\ UNCHANGED state

ExpensesByMonthOf ==
    \E k \in MonthKeys \cup Malformed :
        /\ op' = "getExpensesByMonth"
        /\ arg' = k
        /\ ret' = getExpensesByMonth(expenses, k)
        /\ UNCHANGED state

InitBuckets ==
    /\ tz \in TimeZones
    /\ today = DateOfDay(MakeDay(2025, 1, 1))
    /\ expenses \in BucketStores
    /\ budgets = NoBudgets
    /\ localStorage = [expenses |-> expenses, budgets |-> budgets]
    /\ quotaExceeded = FALSE
    /\ issued = Len(expenses)
    /\ setResult = "none"
    /\ op = "init"
    /\ arg = <<>>
    /\ ret = <<>>

NextBuckets ==
    \/ StartOfWeekOf
    \/ StartOfMonthOf
    \/ PreviousWeekOf
    \/ PreviousMonthOf
    \/ ExpensesByWeekOf
    \/ ExpensesByMonthOf

SpecBuckets == InitBuckets /\ [][NextBuckets]_vars

----------------------------------------------------------------------------
(* Properties *)

\* the day number of a date key
DayOf(key) == DateParse(key).day

\* the sum of the amounts of q[i], q[i + 1], ..., taken from the front
RECURSIVE AmountsFrom(_, _)
AmountsFrom(q, i) ==
    IF i > Len(q) THEN 0 ELSE q[i].amount + AmountsFrom(q, i + 1)

KindsOf(msgs) == [i \in 1..Len(msgs) |-> msgs[i].kind]

WithKind(msgs, kinds) == SelectSeq(msgs, LAMBDA x : x.kind \in kinds)

WeeklyKinds == {"Warning", "GreatJob", "StartComparing"}

BudgetKinds == {"Tip", "Excellent", "CriticalWarning", "Caution"}

\* p is an integer nearest to num / den
Nearest(p, num, den) == 2 * Abs(p * den - num) <= den

\* the summaries the engine computes in the current state
Weekly == getWeeklySummary(expenses, tz, today)

Monthly == getMonthlySummary(expenses, budgets, tz, today)

\* C1: calculateTotals returns as total the sum of the amounts of all the
\* records it is given, and the values of categoryTotals add up to total.
C1_TotalsAreSums ==
    op = "calculateTotals" =>
        /\ ret.total = AmountsFrom(arg, 1)
        /\ AmountsFrom(ret.categoryTotals, 1) = ret.total

\* calculateTotals was given two records of one category with different amounts
C1_Witness ==
    /\ op = "calculateTotals"
    /\ Len(arg) = 2
    /\ arg[1].category = arg[2].category
    /\ arg[1].amount # arg[2].amount
    /\ ret.total = arg[1].amount + arg[2].amount

\* C2: generateInsights emits exactly one budget-status message: the tip when
\* the budget of the current month is 0; otherwise "Excellent" when
\* remaining >= 0 and less than 80% is used, "Critical Warning" when
\* remaining < 0 and "Caution" when remaining >= 0 and 80% or more is used.
\* Budget 15000 with total 5000 gives "Excellent", with total 16000
\* "Critical Warning" with an overage of 1000.
C2_OneBudgetStatus ==
    op = "generateInsights" =>
        LET budget    == Monthly.budget
            total     == Monthly.current.total
            remaining == budget - total
            status    == WithKind(ret, BudgetKinds)
        IN  /\ Len(status) = 1
            /\ status[1].kind =
                   IF budget = 0 THEN "Tip"
                   ELSE IF remaining >= 0 /\ 100 * total < 80 * budget THEN "Excellent"
                   ELSE IF remaining < 0 THEN "CriticalWarning"
                   ELSE "Caution"
            /\ status[1].kind = "Excellent" => status[1].amount = remaining
            /\ status[1].kind = "CriticalWarning" => status[1].amount = total - budget
            /\ (budget = 15000 /\ total = 5000) => status[1].kind = "Excellent"
            /\ (budget = 15000 /\ total = 16000) =>
                   status[1].kind = "CriticalWarning" /\ status[1].amount = 1000

\* budget 15000 and 16000 spent: over budget by 1000
C2_Witness ==
    /\ op = "generateInsights"
    /\ Monthly.budget = 15000
    /\ Monthly.current.total = 16000
    /\ \E i \in 1..Len(ret) : ret[i].kind = "CriticalWarning" /\ ret[i].amount = 1000

\* C3: with c the total of the current week and l that of the last week,
\* generateInsights emits a weekly-comparison message only when c and l are
\* both nonzero: "higher than last week" with |c - l| / l * 100 rounded to the
\* nearest integer when c > l (100 for c = 1000, l = 500), "lower than last
\* week" when c < l, nothing when c = l; "Start comparing" when c is nonzero
\* and l is 0; no message of rule 1 when c = 0.
C3_WeeklyComparison ==
    op = "generateInsights" =>
        LET c    == Weekly.current.total
            l    == Weekly.last.total
            msgs == WithKind(ret, WeeklyKinds)
        IN  /\ (c # 0 /\ l # 0 /\ c > l) =>
                   /\ KindsOf(msgs) = <<"Warning">>
                   /\ Nearest(msgs[1].percent, 100 * (c - l), l)
            /\ (c # 0 /\ l # 0 /\ c < l) => KindsOf(msgs) = <<"GreatJob">>
            /\ (c # 0 /\ l # 0 /\ c = l) => msgs = <<>>
            /\ (c # 0 /\ l = 0) => KindsOf(msgs) = <<"StartComparing">>
            /\ c = 0 => msgs = <<>>
            /\ (c = 1000 /\ l = 500) => msgs[1].percent = 100

\* 1000 spent this week and 500 last week: 100% higher
C3_Witness ==
    /\ op = "generateInsights"
    /\ Weekly.current.total = 1000
    /\ Weekly.last.total = 500
    /\ \E i \in 1..Len(ret) : ret[i].kind = "Warning" /\ ret[i].percent = 100

\* the entries of totals with the largest amount
MaxEntries(totals) ==
    {i \in 1..Len(totals) : \A j \in 1..Len(totals) : totals[j].amount <= totals[i].amount}

\* C4 as stated: when the current month has a record, the category named in
\* the "Observation" has the largest summed amount, and of several categories
\* with that amount the first in the order of categoryTotals is named.
C4_FirstOfTiesNamed ==
    op = "generateInsights" =>
        LET totals == Monthly.current.categoryTotals
            obs    == WithKind(ret, {"Observation"})
        IN  Len(totals) > 0 =>
                /\ Len(obs) = 1
                /\ \E i \in MaxEntries(totals) :
                       /\ totals[i].category = obs[1].category
                       /\ \A j \in MaxEntries(totals) : i <= j

\* C4 as amended: of several categories with the largest amount the last in
\* the order of categoryTotals is named.
C4_LastOfTiesNamed ==
    op = "generateInsights" =>
        LET totals == Monthly.current.categoryTotals
            obs    == WithKind(ret, {"Observation"})
        IN  Len(totals) > 0 =>
                /\ Len(obs) = 1
                /\ \E i \in MaxEntries(totals) :
                       /\ totals[i].category = obs[1].category
                       /\ obs[1].amount = totals[i].amount
                       /\ \A j \in MaxEntries(totals) : j <= i

\* two categories of the current month have the same, largest amount
C4_Witness ==
    /\ op = "generateInsights"
    /\ Cardinality(MaxEntries(Monthly.current.categoryTotals)) = 2
    /\ \E i \in 1..Len(ret) :
           /\ ret[i].kind = "Observation"
           /\ ret[i].category = Monthly.current.categoryTotals[2].category

\* C5: generateInsights emits the "Suggestion" if and only if it emits an
\* "Observation" and the category named there is Entertainment or Shopping.
\* When the records of the current month are Food 150.50 and Shopping 650.99
\* and no budget is set, the result holds the tip, the observation naming
\* Shopping and the suggestion.
C5_SuggestionForTopCategory ==
    op = "generateInsights" =>
        LET obs      == WithKind(ret, {"Observation"})
            sug      == WithKind(ret, {"Suggestion"})
            inMonth  == getExpensesByMonth(expenses, Monthly.currentMonthKey)
        IN  /\ (Len(sug) > 0) <=>
                   (Len(obs) > 0 /\ obs[1].category \in {"Entertainment", "Shopping"})
            /\ ( /\ Len(inMonth) = 2
                 /\ {<<inMonth[i].category, inMonth[i].amount>> : i \in 1..2} =
                        {<<"Food", 15050>>, <<"Shopping", 65099>>}
                 /\ Monthly.budget = 0 ) =>
                   /\ Len(WithKind(ret, {"Tip"})) = 1
                   /\ KindsOf(obs) = <<"Observation">>
                   /\ obs[1].category = "Shopping"
                   /\ KindsOf(sug) = <<"Suggestion">>

\* the store of scenario A without a budget
C5_Witness ==
    /\ op = "generateInsights"
    /\ expenses = ScenarioA(today)
    /\ Monthly.current.total = 80149
    /\ budgets = NoBudgets
    /\ \E i \in 1..Len(ret) : ret[i].kind = "Suggestion" /\ ret[i].category = "Shopping"

Rank(kind) ==
    IF kind \in WeeklyKinds THEN 1
    ELSE IF kind \in BudgetKinds THEN 2
    ELSE IF kind = "Observation" THEN 3
    ELSE 4

\* C6: in the list generateInsights returns, the weekly message, if any, comes
\* before the budget-status message, which comes before the observation, if
\* any, which the suggestion, if any, follows at once; no kind occurs twice.
C6_RuleOrder ==
    op = "generateInsights" =>
        /\ \A i, j \in 1..Len(ret) : i < j => Rank(ret[i].kind) < Rank(ret[j].kind)
        /\ \E i \in 1..Len(ret) : ret[i].kind \in BudgetKinds
        /\ \A j \in 1..Len(ret) :
               ret[j].kind = "Suggestion" => j > 1 /\ ret[j - 1].kind = "Observation"

\* all four rules emitted a message
C6_Witness ==
    /\ op = "generateInsights"
    /\ Len(ret) = 4
    /\ ret[1].kind \in WeeklyKinds
    /\ ret[4].kind = "Suggestion"

\* C7: getStartOfWeek(d) is the date key of the Monday on or before d, at
\* most 6 days before d (6 days before when d is a Sunday, d itself when d is
\* a Monday).
C7_MondayOnOrBefore ==
    op = "getStartOfWeek" =>
        /\ WeekDay(DayOf(ret)) = 1
        /\ DayOf(ret) <= DayOf(arg)
        /\ DayOf(arg) - DayOf(ret) <= 6

\* C8: getExpensesByWeek(w) returns exactly the stored records dated within
\* [w, w + 6 days]: a record dated w or w + 6 days is returned, one dated
\* w - 1 day or w + 7 days is not.
C8_InclusiveWeekWindow ==
    op = "getExpensesByWeek" =>
        ret = SelectSeq(expenses, LAMBDA e :
                  DayOf(arg) <= DayOf(e.date) /\ DayOf(e.date) <= DayOf(arg) + 6)

\* a record dated w + 6 days is returned where local time is behind UTC
C8_Witness ==
    /\ op = "getExpensesByWeek"
    /\ tz = "NewYork"
    /\ Len(expenses) = 1
    /\ DayOf(expenses[1].date) = DayOf(arg) + 6
    /\ ret = expenses

\* C9: getStartOfWeek(getStartOfWeek(d)) = getStartOfWeek(d).
C9_StartOfWeekIdempotent ==
    op = "getStartOfWeek" => getStartOfWeek(tz, ret) = ret

\* C10: getPreviousWeek(getStartOfWeek(d)) is the date 7 days before
\* getStartOfWeek(d): the lastWeekKey of getWeeklySummary is 7 days before
\* its currentWeekKey.
C10_PreviousWeekSevenDaysBefore ==
    /\ op = "getPreviousWeek" => DayOf(ret) = DayOf(arg) - 7
    /\ op = "getWeeklySummary" =>
           DayOf(ret.lastWeekKey) = DayOf(ret.currentWeekKey) - 7


\* s is a calendar date YYYY-MM-DD
IsDate(s) == ~IsNaNTime(DateParse(s))

\* s is a month key YYYY-MM
IsMonthKey(s) ==
    /\ Len(s) = 7
    /\ s[5] = "-"
    /\ AllDigits(SubSeq(s, 1, 4))
    /\ AllDigits(SubSeq(s, 6, 7))
    /\ StrNum(SubSeq(s, 6, 7)) \in 1..12

YearOf(key) == StrNum(SubSeq(key, 1, 4))

MonthOf(key) == StrNum(SubSeq(key, 6, 7))

\* C11: getPreviousMonth of a month key is the key of the month before it,
\* with a two-digit month: month 01 of year Y gives month 12 of year Y - 1,
\* any other month m gives month m - 1 of the same year
C11_PreviousMonthRollsOver ==
    (op = "getPreviousMonth" /\ IsMonthKey(arg)) =>
        /\ IsMonthKey(ret)
        /\ MonthOf(arg) = 1 => (YearOf(ret) = YearOf(arg) - 1 /\ MonthOf(ret) = 12)
        /\ MonthOf(arg) # 1 => (YearOf(ret) = YearOf(arg) /\ MonthOf(ret) = MonthOf(arg) - 1)
        /\ arg = <<"2", "0", "2", "5", "-", "0", "1">> =>
               ret = <<"2", "0", "2", "4", "-", "1", "2">>

\* getPreviousMonth was applied to the first month of a year
C11_Witness ==
    /\ op = "getPreviousMonth"
    /\ arg = <<"2", "0", "2", "5", "-", "0", "1">>
    /\ ret = <<"2", "0", "2", "4", "-", "1", "2">>

\* C12: getStartOfMonth of a calendar date is the year-month part of that
\* date, so that the month filter with this key returns a record of that date
C12_StartOfMonthIsYearMonth ==
    (op = "getStartOfMonth" /\ IsDate(arg)) =>
        /\ ret = SubSeq(arg, 1, 7)
        /\ getExpensesByMonth(<<Expense(UUID(1), 100, "Food", <<"x">>, arg)>>, ret) # <<>>

\* C18: a bucket function given a string that is no date (no month key for
\* the functions that take one) ends in an error
C18_MalformedInputIsAnError ==
    /\ (op \in {"getStartOfWeek", "getStartOfMonth", "getPreviousWeek", "getExpensesByWeek"}
            /\ ~IsDate(arg)) => ret = RangeError
    /\ (op \in {"getPreviousMonth", "getExpensesByMonth"} /\ ~IsMonthKey(arg)) =>
            ret = RangeError

\* C13: for records with positive amounts, a category is a key of
\* calculateTotals(records).categoryTotals exactly when a record has that
\* category; no key has the value 0; for no records the mapping is empty and
\* total is 0
C13_KeysAreCategoriesPresent ==
    (op = "calculateTotals" /\ \A i \in 1..Len(arg) : arg[i].amount > 0) =>
        LET totals == ret.categoryTotals
        IN  /\ {totals[i].category : i \in 1..Len(totals)} =
                    {arg[i].category : i \in 1..Len(arg)}
            /\ \A i, j \in 1..Len(totals) : totals[i].category = totals[j].category => i = j
            /\ \A i \in 1..Len(totals) : totals[i].amount # 0
            /\ arg = <<>> => (totals = <<>> /\ ret.total = 0)

\* calculateTotals was given records of two categories and none of a third
C13_Witness ==
    /\ op = "calculateTotals"
    /\ Len(arg) = 2
    /\ arg[1].category = "Food"
    /\ arg[2].category = "Shopping"
    /\ Len(ret.categoryTotals) = 2

\* the (period type, period key) pairs of the application
BudgetPairs == BudgetTypes \X BudgetKeys(tz, today)

\* C14: getBudget gives 0 for a pair that is not set; setBudget with type
\* 'monthly' or 'weekly' returns true, after it getBudget gives the amount
\* set for that pair and what it gave before for every other pair; with
\* another type it returns false and changes nothing; getBudget called
\* right after a setBudget of the same pair returns the amount set
C14_GetBudgetIsLastSet ==
    /\ [](\A p \in BudgetPairs :
            (p[1] \notin DOMAIN budgets \/ p[2] \notin DOMAIN budgets[p[1]]) =>
                getBudget(budgets, p[1], p[2]) = 0)
    /\ [][/\ op' = "setBudget" =>
               IF arg'[1] \in {"monthly", "weekly"}
               THEN /\ ret' = TRUE
                    /\ getBudget(budgets', arg'[1], arg'[2]) = arg'[3]
                    /\ \A p \in BudgetPairs : p # <<arg'[1], arg'[2]>> =>
                           getBudget(budgets', p[1], p[2]) = getBudget(budgets, p[1], p[2])
               ELSE ret' = FALSE /\ budgets' = budgets
          /\ (op' = "getBudget" /\ op = "setBudget" /\ ret = TRUE
                 /\ arg' = <<arg[1], arg[2]>>) => ret' = arg[3]]_vars

\* a weekly budget was set while a monthly budget of another amount exists,
\* which is still there
C14_Witness ==
    /\ op = "setBudget"
    /\ arg[1] = "weekly"
    /\ ret = TRUE
    /\ getBudget(budgets, "weekly", arg[2]) = DirectBudget
    /\ \E k \in BudgetKeys(tz, today) :
           getBudget(budgets, "monthly", k) \notin {0, DirectBudget}

\* C15: apart from storage failures, a step that is not an explicit set
\* operation (setBudget or the submit of the budget form) leaves the amount
\* of every budget as it was, a page reload included
C15_BudgetsOnlyChangedBySet ==
    [][(~quotaExceeded /\ op' \notin {"setBudget", "budgetForm.onsubmit"}) =>
          \A p \in BudgetPairs :
              getBudget(budgets', p[1], p[2]) = getBudget(budgets, p[1], p[2])]_vars

\* C16: every record of the store has an amount that is greater than 0
C16_AmountsPositive ==
    \A i \in 1..Len(expenses) : ~isNaN(expenses[i].amount) /\ expenses[i].amount > 0

\* C17: when StorageUtility.set returned false in addExpense, updateExpense,
\* deleteExpense or setBudget, the operation returns a failure (null in
\* place of the record, false in place of true) and the expenses and
\* budgets in memory are as they were before it
C17_StorageFailureReported ==
    [][(op' \in {"addExpense", "updateExpense", "deleteExpense", "setBudget"}
            /\ setResult' = "failed") =>
          /\ IF op' \in {"addExpense", "updateExpense"} THEN ret' = null ELSE ret' = FALSE
          /\ expenses' = expenses
          /\ budgets' = budgets]_vars

IdsOf(exps) == [i \in 1..Len(exps) |-> exps[i].id]

\* C19: no two records of the store have the same id, and an update leaves
\* the id of every record as it was
C19_IdsUnique ==
    /\ [](\A i, j \in 1..Len(expenses) : expenses[i].id = expenses[j].id => i = j)
    /\ [][(op' = "updateExpense" \/ (op' = "form.onsubmit" /\ arg'[1] # <<>>)) =>
              /\ IdsOf(expenses') = IdsOf(expenses)
              /\ (op' = "updateExpense" /\ ret' # null) => ret'.id = arg'[1]]_vars

\* a record was added after a reload, next to demo records, and the record
\* with a fresh identifier was updated
C19_Witness ==
    /\ op = "updateExpense"
    /\ arg[1] = UUID(1)
    /\ ret # null
    /\ \E i \in 1..Len(expenses) : expenses[i].id = DemoId(2)
    /\ \E i \in 1..Len(expenses) : expenses[i].id = UUID(1)

ReadOps ==
    {"calculateTotals", "getWeeklySummary", "getMonthlySummary", "generateInsights",
     "getDailyExpenses", "getExpensesByMonth", "getExpensesByWeek", "getBudget"}

C21_TodayInCurrentWeek ==
    LET rec == <<Expense(UUID(1), 100, "Food", <<"x">>, today)>>
        currentWeekKey == getStartOfWeek(tz, today)
    IN  op = "getWeeklySummary" =>
            /\ getExpensesByWeek(rec, tz, currentWeekKey) = rec
            /\ getExpensesByWeek(rec, tz, getPreviousWeek(tz, currentWeekKey)) = <<>>
            /\ expenses = rec => (ret.current.total = 100 /\ ret.last.total = 0)

\* C22: apart from storage failures, the expenses the App loads after a
\* page reload are the expenses as they stood before it, so that a deleted
\* record does not come back
C22_ReloadKeepsExpenses ==
    [][(~quotaExceeded /\ op' = "onload") => expenses' = expenses]_vars

\* C23: updateExpense with the id of a record puts the four fields given in
\* place of that record, at its position, leaves the other records and their
\* number as they were and returns the new record; deleteExpense with the id
\* of a record removes that record only, keeps the order of the others and
\* returns true; with an id of no record updateExpense returns null,
\* deleteExpense false, and the expenses are as before
C23_UpdateDeleteFrame ==
    [][/\ op' = "updateExpense" =>
            IF \E k \in 1..Len(expenses) : expenses[k].id = arg'[1]
            THEN \E k \in 1..Len(expenses) :
                    /\ expenses[k].id = arg'[1]
                    /\ Len(expenses') = Len(expenses)
                    /\ \A i \in 1..Len(expenses) : i # k => expenses'[i] = expenses[i]
                    /\ expenses'[k] = [id |-> arg'[1], amount |-> parseFloat(arg'[2]),
                                       category |-> arg'[3], description |-> trim(arg'[4]),
                                       date |-> arg'[5]]
                    /\ ret' = expenses'[k]
            ELSE ret' = null /\ expenses' = expenses
       /\ op' = "deleteExpense" =>
            IF \E k \in 1..Len(expenses) : expenses[k].id = arg'
            THEN /\ \E k \in 1..Len(expenses) :
                        /\ expenses[k].id = arg'
                        /\ expenses' = SubSeq(expenses, 1, k - 1) \o
                                       SubSeq(expenses, k + 1, Len(expenses))
                 /\ ret' = TRUE
            ELSE ret' = FALSE /\ expenses' = expenses]_vars

\* the first of several records was updated and is still the first
C23_Witness ==
    /\ op = "updateExpense"
    /\ arg[1] = DemoId(1)
    /\ ret # null
    /\ Len(expenses) >= 3
    /\ expenses[1] = ret
    /\ expenses[1].category = "Shopping"

====
